---- MODULE Spec2Model ----
(***************************************************************************)
(* Model of app.py: a FastAPI service over MySQL (mysql.connector) with    *)
(* CRUD handlers for users, posts and comments, two join endpoints, the    *)
(* request-scoped connection dependency get_db, and the startup            *)
(* initializer lifespan.                                                   *)
(*                                                                         *)
(* The module holds the specifications                                     *)
(*   Spec             requests handled one at a time against an            *)
(*                    initialised database;                                *)
(*   ConnSpec         the same handlers with requests of several clients   *)
(*                    in flight at once;                                   *)
(*   StartupSpec      the lifespan retry loop that applies init.sql;       *)
(*   StartupLiveSpec  that loop in a process that keeps running.           *)
(***************************************************************************)
EXTENDS Integers, Sequences, FiniteSets, TLC

\* ------------------------------------------------------------------ bounds
\* Rows a table may ever receive (caps AUTO_INCREMENT in the Create guards).
MaxRows == 2
\* Clients issuing requests one after another in Spec.
NumClients == 1
\* Clients whose requests interleave in ConnSpec, and the rows a table may
\* receive there.
ConnClients == 2
ConnRows == 1
\* Longest init.sql text explored, in characters: in StartupSpec and in
\* StartupLiveSpec.
MaxScriptLen == 3
LiveScriptLen == 2

\* range(30) in lifespan.
MaxAttempts == 30

\* ------------------------------------------------------------ input domains
Names == {"Ann", "Bob"}
Emails == {"a@x.com"}
Titles == {"Hi"}
Bodies == {"B"}
CommentTexts == {"c"}
\* Values the database may assign to comments.created_at at insert time.
Timestamps == {"t1"}
\* Ids given in a path: every id a table may hold, and one it never holds.
PathIds == 1..(MaxRows + 1)
\* Ids given as a foreign key in a request body.
RefIds == 1..MaxRows

\* class UserCreate / PostCreate / CommentCreate
UserCreate == [name : Names, email : Emails]
PostCreate == [user_id : RefIds, title : Titles, body : Bodies]
CommentCreate == [post_id : RefIds, body : CommentTexts]

\* mysql.connector runs either its C extension cursor or its pure Python
\* cursor, whichever the installation provides.
Drivers == {"cext", "pure"}

VARIABLES
    db,        \* the MySQL database: tables and AUTO_INCREMENT counters
    driver,    \* which mysql.connector cursor implementation the build uses
    pc,        \* per client: "idle", "connected" (handler may run), "responded"
    open,      \* per client: connections opened by get_db and not yet closed
    resp,      \* per client: status of the response to its latest request (0: none yet)
    last,      \* the request most recently executed by a handler, with its response
    expected,  \* rows that clients were told exist (from Create/Update/Delete responses)
    script,    \* text of init.sql, a sequence of characters
    spc,       \* lifespan: "connect", "execute", "close", "sleep", "serving"
    attempt,   \* lifespan: iterations of the for loop begun
    opened,    \* lifespan: connections opened
    closed,    \* lifespan: connections closed by conn.close()
    reclaimed, \* lifespan: open connections finalised when conn was rebound
    segment,   \* lifespan: index of the next piece of init.sql to look at
    executed,  \* lifespan: statements executed on the current connection
    commits,   \* lifespan: successful conn.commit() calls
    slept      \* lifespan: time.sleep(1) calls

vars == <<db, driver, pc, open, resp, last, expected,
          script, spc, attempt, opened, closed, reclaimed, segment, executed, commits, slept>>
reqVars == <<db, driver, pc, open, resp, last, expected>>
bootVars == <<script, spc, attempt, opened, closed, reclaimed, segment, executed, commits, slept>>

\* ---------------------------------------------------------------- responses
Ok(body) == [status |-> 200, body |-> body]
\* raise HTTPException(status_code=404, detail=...)
NotFound(detail) == [status |-> 404, body |-> [detail |-> detail]]
\* A mysql.connector.Error that no handler catches: the framework answers 500.
ServerError == [status |-> 500, body |-> [detail |-> "Internal Server Error"]]
NoRequest ==
    [op |-> "none", args |-> <<>>, known |-> TRUE, resp |-> [status |-> 0, body |-> <<>>]]

\* ------------------------------------------------------------- the database
\* Tables as created by init.sql: users(id, name, email),
\* posts(id, user_id, title, body), comments(id, post_id, body, created_at).
EmptyDb ==
    [users |-> {}, posts |-> {}, comments |-> {},
     nextUser |-> 1, nextPost |-> 1, nextComment |-> 1]

\* fetchall() of a SELECT without ORDER BY: the rows in primary-key order.
RECURSIVE fetchall(_)
fetchall(rows) ==
    IF rows = {} THEN <<>>
    ELSE LET first == CHOOSE r \in rows : \A q \in rows : r.id <= q.id
         IN  <<first>> \o fetchall(rows \ {first})

\* The primary keys of a set of rows.
Ids(rows) == {r.id : r \in rows}

\* SELECT * FROM table WHERE id = %s
SelectById(table, id) == {r \in table : r.id = id}

\* Tables declared without the foreign keys.
ForeignKeyAbsent(parents, id) == TRUE

\* posts.user_id REFERENCES users(id), comments.post_id REFERENCES posts(id):
\* an INSERT or UPDATE naming a missing parent is rejected.
ForeignKeyHolds(parents, id) == \E p \in parents : p.id = id

\* The foreign keys carry no ON DELETE action, so a parent row that still has
\* children cannot be deleted.
DeleteRestricted(children, column, id) == \E ch \in children : ch[column] = id

\* cursor.rowcount as the handler reads it, after cursor.close().  The C
\* extension cursor keeps the statement's affected-row count; the pure Python
\* cursor resets it to -1 when it is closed.
rowcount(affected) == IF driver = "pure" THEN -1 ELSE affected

\* Rows an UPDATE reports as affected: MySQL counts the rows whose values
\* really changed (the connection does not set CLIENT_FOUND_ROWS).
Changed(matched, new) == Cardinality({r \in matched : r # new})

Result(d, r) == [db |-> d, resp |-> r]


\* create_user returning a row count instead of cursor.lastrowid.
create_user_counted(d, user) ==
    LET row == [id |-> d.nextUser, name |-> user.name, email |-> user.email]
        user_id == Cardinality(d.users) + 1
    IN  Result([d EXCEPT !.users = @ \cup {row}, !.nextUser = @ + 1],
               Ok([id |-> user_id, name |-> user.name, email |-> user.email]))

\* ------------------------------------------------------------------- users
create_user(d, user) ==
    LET row == [id |-> d.nextUser, name |-> user.name, email |-> user.email]
        user_id == row.id
    IN  Result([d EXCEPT !.users = @ \cup {row}, !.nextUser = @ + 1],
               Ok([id |-> user_id, name |-> user.name, email |-> user.email]))

list_users(d) == Result(d, Ok(fetchall(d.users)))

get_user(d, user_id) ==
    LET found == SelectById(d.users, user_id)
    IN  IF found = {} THEN Result(d, NotFound("User not found"))
        ELSE Result(d, Ok(CHOOSE u \in found : TRUE))

update_user(d, user_id, user) ==
    LET matched == SelectById(d.users, user_id)
        new == [id |-> user_id, name |-> user.name, email |-> user.email]
        users == IF matched = {} THEN d.users ELSE (d.users \ matched) \cup {new}
        after == [d EXCEPT !.users = users]
    IN  IF rowcount(Changed(matched, new)) = 0
        THEN Result(after, NotFound("User not found"))
        ELSE Result(after, Ok([id |-> user_id, name |-> user.name, email |-> user.email]))

delete_user(d, user_id) ==
    LET matched == SelectById(d.users, user_id)
        after == [d EXCEPT !.users = @ \ matched]
    IN  IF matched # {} /\ DeleteRestricted(d.posts, "user_id", user_id)
        THEN Result(d, ServerError)
        ELSE IF rowcount(Cardinality(matched)) = 0
        THEN Result(after, NotFound("User not found"))
        ELSE Result(after, Ok([detail |-> "User deleted"]))

\* ------------------------------------------------------------------- posts
create_post(d, post) ==
    LET row == [id |-> d.nextPost, user_id |-> post.user_id,
                title |-> post.title, body |-> post.body]
        post_id == row.id
    IN  IF ~ForeignKeyHolds(d.users, post.user_id)
        THEN Result(d, ServerError)
        ELSE Result([d EXCEPT !.posts = @ \cup {row}, !.nextPost = @ + 1],
                    Ok([id |-> post_id, user_id |-> post.user_id,
                        title |-> post.title, body |-> post.body]))

list_posts(d) == Result(d, Ok(fetchall(d.posts)))

get_post(d, post_id) ==
    LET found == SelectById(d.posts, post_id)
    IN  IF found = {} THEN Result(d, NotFound("Post not found"))
        ELSE Result(d, Ok(CHOOSE p \in found : TRUE))

update_post(d, post_id, post) ==
    LET matched == SelectById(d.posts, post_id)
        new == [id |-> post_id, user_id |-> post.user_id,
                title |-> post.title, body |-> post.body]
        posts == IF matched = {} THEN d.posts ELSE (d.posts \ matched) \cup {new}
        after == [d EXCEPT !.posts = posts]
    IN  IF matched # {} /\ ~ForeignKeyHolds(d.users, post.user_id)
        THEN Result(d, ServerError)
        ELSE IF rowcount(Changed(matched, new)) = 0
        THEN Result(after, NotFound("Post not found"))
        ELSE Result(after, Ok([id |-> post_id, user_id |-> post.user_id,
                               title |-> post.title, body |-> post.body]))


\* delete_post without conn.commit(): closing the connection rolls the
\* DELETE back.
delete_post_uncommitted(d, post_id) ==
    LET matched == SelectById(d.posts, post_id)
    IN  IF matched # {} /\ DeleteRestricted(d.comments, "post_id", post_id)
        THEN Result(d, ServerError)
        ELSE IF rowcount(Cardinality(matched)) = 0
        THEN Result(d, NotFound("Post not found"))
        ELSE Result(d, Ok([detail |-> "Post deleted"]))

delete_post(d, post_id) ==
    LET matched == SelectById(d.posts, post_id)
        after == [d EXCEPT !.posts = @ \ matched]
    IN  IF matched # {} /\ DeleteRestricted(d.comments, "post_id", post_id)
        THEN Result(d, ServerError)
        ELSE IF rowcount(Cardinality(matched)) = 0
        THEN Result(after, NotFound("Post not found"))
        ELSE Result(after, Ok([detail |-> "Post deleted"]))

\* SELECT posts.id, posts.title, posts.body, users.name, users.email
\* FROM posts JOIN users ON posts.user_id = users.id WHERE users.id = %s
JoinPostsUsers(d, user_id) ==
    {[id |-> p.id, title |-> p.title, body |-> p.body,
      name |-> u.name, email |-> u.email] :
        <<p, u>> \in {pu \in d.posts \X d.users :
                        pu[1].user_id = pu[2].id /\ pu[2].id = user_id}}

RECURSIVE PostItems(_)
PostItems(rows) ==
    IF rows = <<>> THEN <<>>
    ELSE <<[id |-> Head(rows).id, title |-> Head(rows).title, body |-> Head(rows).body]>>
         \o PostItems(Tail(rows))


\* get_user_posts without the fallback query: an empty join is NotFound.
get_user_posts_join_only(d, user_id) ==
    LET posts == fetchall(JoinPostsUsers(d, user_id))
    IN  IF posts = <<>>
        THEN Result(d, NotFound("User not found"))
        ELSE Result(d, Ok([user |-> [id |-> user_id, name |-> posts[1].name,
                                     email |-> posts[1].email],
                           posts |-> PostItems(posts)]))

get_user_posts(d, user_id) ==
    LET posts == fetchall(JoinPostsUsers(d, user_id))
        found == SelectById(d.users, user_id)
    IN  IF posts = <<>>
        THEN IF found = {} THEN Result(d, NotFound("User not found"))
             ELSE Result(d, Ok([user |-> CHOOSE u \in found : TRUE, posts |-> <<>>]))
        ELSE Result(d, Ok([user |-> [id |-> user_id, name |-> posts[1].name,
                                     email |-> posts[1].email],
                           posts |-> PostItems(posts)]))

\* ---------------------------------------------------------------- comments
\* created_at is assigned by the database when the row is inserted (now).
create_comment(d, comment, now) ==
    LET row == [id |-> d.nextComment, post_id |-> comment.post_id,
                body |-> comment.body, created_at |-> now]
        comment_id == row.id
    IN  IF ~ForeignKeyHolds(d.posts, comment.post_id)
        THEN Result(d, ServerError)
        ELSE Result([d EXCEPT !.comments = @ \cup {row}, !.nextComment = @ + 1],
                    Ok([id |-> comment_id, post_id |-> comment.post_id,
                        body |-> comment.body]))

list_comments(d) == Result(d, Ok(fetchall(d.comments)))

get_comment(d, comment_id) ==
    LET found == SelectById(d.comments, comment_id)
    IN  IF found = {} THEN Result(d, NotFound("Comment not found"))
        ELSE Result(d, Ok(CHOOSE c \in found : TRUE))

update_comment(d, comment_id, comment) ==
    LET matched == SelectById(d.comments, comment_id)
        Set(c) == [c EXCEPT !.post_id = comment.post_id, !.body = comment.body]
        changed == Cardinality({c \in matched : Set(c) # c})
        after == [d EXCEPT !.comments = (@ \ matched) \cup {Set(c) : c \in matched}]
    IN  IF matched # {} /\ ~ForeignKeyHolds(d.posts, comment.post_id)
        THEN Result(d, ServerError)
        ELSE IF rowcount(changed) = 0
        THEN Result(after, NotFound("Comment not found"))
        ELSE Result(after, Ok([id |-> comment_id, post_id |-> comment.post_id,
                               body |-> comment.body]))

delete_comment(d, comment_id) ==
    LET matched == SelectById(d.comments, comment_id)
        after == [d EXCEPT !.comments = @ \ matched]
    IN  IF rowcount(Cardinality(matched)) = 0
        THEN Result(after, NotFound("Comment not found"))
        ELSE Result(after, Ok([detail |-> "Comment deleted"]))

\* SELECT posts.id AS post_id, posts.user_id, posts.title, posts.body AS post_body,
\*        comments.id AS comment_id, comments.body AS comment_body, comments.created_at
\* FROM comments JOIN posts ON comments.post_id = posts.id WHERE posts.id = %s
JoinCommentsPosts(d, post_id) ==
    {[id |-> c.id, post_id |-> p.id, user_id |-> p.user_id, title |-> p.title,
      post_body |-> p.body, comment_id |-> c.id, comment_body |-> c.body,
      created_at |-> c.created_at] :
        <<c, p>> \in {cp \in d.comments \X d.posts :
                        cp[1].post_id = cp[2].id /\ cp[2].id = post_id}}

RECURSIVE CommentItems(_)
CommentItems(rows) ==
    IF rows = <<>> THEN <<>>
    ELSE <<[id |-> Head(rows).comment_id, body |-> Head(rows).comment_body,
            created_at |-> Head(rows).created_at]>>
         \o CommentItems(Tail(rows))

get_post_comments(d, post_id) ==
    LET comments == fetchall(JoinCommentsPosts(d, post_id))
        found == SelectById(d.posts, post_id)
    IN  IF comments = <<>>
        THEN IF found = {} THEN Result(d, NotFound("Post not found"))
             ELSE Result(d, Ok([post |-> CHOOSE p \in found : TRUE, comments |-> <<>>]))
        ELSE Result(d, Ok([post |-> [id |-> comments[1].post_id,
                                     user_id |-> comments[1].user_id,
                                     title |-> comments[1].title,
                                     body |-> comments[1].post_body],
                           comments |-> CommentItems(comments)]))

\* ------------------------------------------------- what clients were told
\* The rows a client can account for from the responses alone: a Create's
\* response adds the row it names, a successful Update of such a row replaces
\* its fields, a Delete's confirmation removes it.
Told(rows, op, out) ==
    LET b == out.resp.body IN
    IF out.resp.status # 200 THEN rows
    ELSE IF op = "create" THEN rows \cup {b}
    ELSE IF op = "update" THEN
        IF \E r \in rows : r.id = b.id THEN {r \in rows : r.id # b.id} \cup {b} ELSE rows
    ELSE rows

Forget(rows, id, out) ==
    IF out.resp.status = 200 THEN {r \in rows : r.id # id} ELSE rows

\* -------------------------------------------------- the request life cycle
\* get_db up to its yield: mysql.connector.connect(...) succeeded.
get_db_enter(n) == n + 1

\* get_db closing the connection after the yield but not in a finally block.
get_db_exit_on_success(n, outcome) == IF outcome = 200 THEN n - 1 ELSE n

\* get_db's finally: conn.close(), whatever the handler's outcome was.
get_db_exit(n, outcome) == n - 1

Connect(c) ==
    /\ spc = "serving"
    /\ pc[c] = "idle"
    /\ open' = [open EXCEPT ![c] = get_db_enter(@)]
    /\ pc' = [pc EXCEPT ![c] = "connected"]
    /\ resp' = [resp EXCEPT ![c] = 0]
    /\ UNCHANGED <<db, driver, last, expected>>
    /\ UNCHANGED bootVars

\* mysql.connector.connect raises inside get_db, before the try block is
\* entered: there is no connection to close and the request ends with a 500.
ConnectFail(c) ==
    /\ spc = "serving"
    /\ pc[c] = "idle"
    /\ resp[c] # 500
    /\ resp' = [resp EXCEPT ![c] = 500]
    /\ UNCHANGED <<db, driver, pc, open, last, expected>>
    /\ UNCHANGED bootVars

\* The handler body of client c ran request op(args) and produced out; known
\* says whether the id in the request's path was that of a row clients had
\* been told exists.
Handled(c, op, args, known, out, told) ==
    /\ pc[c] = "connected"
    /\ db' = out.db
    /\ pc' = [pc EXCEPT ![c] = "responded"]
    /\ resp' = [resp EXCEPT ![c] = out.resp.status]
    /\ last' = [op |-> op, args |-> args, known |-> known, resp |-> out.resp]
    /\ expected' = told
    /\ UNCHANGED <<driver, open>>
    /\ UNCHANGED bootVars

\* The request ends: get_db resumes after its yield and closes the connection.
Release(c) ==
    /\ pc[c] = "responded"
    /\ open' = [open EXCEPT ![c] = get_db_exit(@, resp[c])]
    /\ pc' = [pc EXCEPT ![c] = "idle"]
    /\ UNCHANGED <<db, driver, resp, last, expected>>
    /\ UNCHANGED bootVars

\* ------------------------------------------------------- handler actions
CreateUser(c, cap) ==
    \E user \in UserCreate :
        /\ db.nextUser <= cap
        /\ LET out == create_user(db, user) IN
           Handled(c, "create_user", <<user>>, TRUE, out,
                   [expected EXCEPT !.users = Told(@, "create", out)])

ListUsers(c) == Handled(c, "list_users", <<>>, TRUE, list_users(db), expected)

GetUser(c) ==
    \E user_id \in PathIds :
        Handled(c, "get_user", <<user_id>>, user_id \in Ids(expected.users), get_user(db, user_id), expected)

UpdateUser(c) ==
    \E user_id \in PathIds, user \in UserCreate :
        LET out == update_user(db, user_id, user) IN
        Handled(c, "update_user", <<user_id, user>>, user_id \in Ids(expected.users), out,
                [expected EXCEPT !.users = Told(@, "update", out)])

DeleteUser(c) ==
    \E user_id \in PathIds :
        LET out == delete_user(db, user_id) IN
        Handled(c, "delete_user", <<user_id>>, user_id \in Ids(expected.users), out,
                [expected EXCEPT !.users = Forget(@, user_id, out)])

CreatePost(c, cap) ==
    \E post \in PostCreate :
        /\ db.nextPost <= cap
        /\ LET out == create_post(db, post) IN
           Handled(c, "create_post", <<post>>, TRUE, out,
                   [expected EXCEPT !.posts = Told(@, "create", out)])

ListPosts(c) == Handled(c, "list_posts", <<>>, TRUE, list_posts(db), expected)

GetPost(c) ==
    \E post_id \in PathIds :
        Handled(c, "get_post", <<post_id>>, post_id \in Ids(expected.posts), get_post(db, post_id), expected)

UpdatePost(c) ==
    \E post_id \in PathIds, post \in PostCreate :
        LET out == update_post(db, post_id, post) IN
        Handled(c, "update_post", <<post_id, post>>, post_id \in Ids(expected.posts), out,
                [expected EXCEPT !.posts = Told(@, "update", out)])

DeletePost(c) ==
    \E post_id \in PathIds :
        LET out == delete_post(db, post_id) IN
        Handled(c, "delete_post", <<post_id>>, post_id \in Ids(expected.posts), out,
                [expected EXCEPT !.posts = Forget(@, post_id, out)])

GetUserPosts(c) ==
    \E user_id \in PathIds :
        Handled(c, "get_user_posts", <<user_id>>, user_id \in Ids(expected.users), get_user_posts(db, user_id), expected)

CreateComment(c, cap) ==
    \E comment \in CommentCreate, now \in Timestamps :
        /\ db.nextComment <= cap
        /\ LET out == create_comment(db, comment, now) IN
           Handled(c, "create_comment", <<comment>>, TRUE, out,
                   [expected EXCEPT !.comments = Told(@, "create", out)])

ListComments(c) == Handled(c, "list_comments", <<>>, TRUE, list_comments(db), expected)

GetComment(c) ==
    \E comment_id \in PathIds :
        Handled(c, "get_comment", <<comment_id>>, comment_id \in Ids(expected.comments), get_comment(db, comment_id), expected)

UpdateComment(c) ==
    \E comment_id \in PathIds, comment \in CommentCreate :
        LET out == update_comment(db, comment_id, comment) IN
        Handled(c, "update_comment", <<comment_id, comment>>, comment_id \in Ids(expected.comments), out,
                [expected EXCEPT !.comments = Told(@, "update", out)])

DeleteComment(c) ==
    \E comment_id \in PathIds :
        LET out == delete_comment(db, comment_id) IN
        Handled(c, "delete_comment", <<comment_id>>, comment_id \in Ids(expected.comments), out,
                [expected EXCEPT !.comments = Forget(@, comment_id, out)])

GetPostComments(c) ==
    \E post_id \in PathIds :
        Handled(c, "get_post_comments", <<post_id>>, post_id \in Ids(expected.posts), get_post_comments(db, post_id), expected)


\* ------------------------------------------------------ startup: init.sql
\* Characters of init.sql: a statement character, the terminator, whitespace.
Chars == {"a", ";", " "}

Scripts(longest) == UNION {[1..n -> Chars] : n \in 0..longest}

\* str.split(";"): the pieces between terminators, empty pieces included.
RECURSIVE split(_)
split(text) ==
    IF \A i \in 1..Len(text) : text[i] # ";" THEN <<text>>
    ELSE LET i == CHOOSE k \in 1..Len(text) :
                      text[k] = ";" /\ \A j \in 1..(k - 1) : text[j] # ";"
         IN  <<SubSeq(text, 1, i - 1)>> \o split(SubSeq(text, i + 1, Len(text)))

RECURSIVE lstrip(_)
lstrip(text) ==
    IF text # <<>> /\ Head(text) = " " THEN lstrip(Tail(text)) ELSE text

RECURSIVE rstrip(_)
rstrip(text) ==
    IF text # <<>> /\ text[Len(text)] = " "
    THEN rstrip(SubSeq(text, 1, Len(text) - 1)) ELSE text

\* str.strip()
strip(text) == rstrip(lstrip(text))

\* -------------------------------------------------------- startup: lifespan
\* mysql.connector.connect(...) returns a connection: the try block goes on
\* to read init.sql.  Binding conn and cursor to the new objects drops the
\* last references to a connection that an earlier attempt left open, and the
\* interpreter finalises it.
LifespanConnect ==
    /\ spc = "connect"
    /\ attempt' = attempt + 1
    /\ opened' = opened + 1
    /\ segment' = 1
    /\ executed' = <<>>
    /\ spc' = "execute"
    /\ reclaimed' = opened - closed
    /\ UNCHANGED <<script, closed, commits, slept>>
    /\ UNCHANGED reqVars

\* mysql.connector.connect(...) raises mysql.connector.Error.
LifespanConnectError ==
    /\ spc = "connect"
    /\ attempt' = attempt + 1
    /\ spc' = "sleep"
    /\ UNCHANGED <<script, opened, closed, reclaimed, segment, executed, commits, slept>>
    /\ UNCHANGED reqVars

\* One turn of "for statement in f.read().split(';')": strip the piece and
\* execute it unless it is empty.
LifespanStatement ==
    /\ spc = "execute"
    /\ segment <= Len(split(script))
    /\ LET statement == strip(split(script)[segment]) IN
       executed' = IF statement # <<>> THEN Append(executed, statement) ELSE executed
    /\ segment' = segment + 1
    /\ UNCHANGED <<script, spc, attempt, opened, closed, reclaimed, commits, slept>>
    /\ UNCHANGED reqVars

\* cursor.execute(statement) raises mysql.connector.Error: control leaves the
\* try block for the except clause; nothing closes the connection.
LifespanStatementError ==
    /\ spc = "execute"
    /\ segment <= Len(split(script))
    /\ strip(split(script)[segment]) # <<>>
    /\ spc' = "sleep"
    /\ UNCHANGED <<script, attempt, opened, closed, reclaimed, segment, executed, commits, slept>>
    /\ UNCHANGED reqVars

\* conn.commit() after the last piece.
LifespanCommit ==
    /\ spc = "execute"
    /\ segment > Len(split(script))
    /\ commits' = commits + 1
    /\ spc' = "close"
    /\ UNCHANGED <<script, attempt, opened, closed, reclaimed, segment, executed, slept>>
    /\ UNCHANGED reqVars

\* conn.commit() raises mysql.connector.Error.
LifespanCommitError ==
    /\ spc = "execute"
    /\ segment > Len(split(script))
    /\ spc' = "sleep"
    /\ UNCHANGED <<script, attempt, opened, closed, reclaimed, segment, executed, commits, slept>>
    /\ UNCHANGED reqVars


\* lifespan without the break after conn.close().
LifespanCloseAndRetry ==
    /\ spc = "close"
    /\ closed' = closed + 1
    /\ spc' = IF attempt < MaxAttempts THEN "connect" ELSE "serving"
    /\ UNCHANGED <<script, attempt, opened, reclaimed, segment, executed, commits, slept>>
    /\ UNCHANGED reqVars

\* cursor.close(); conn.close(); break; then the yield.
LifespanClose ==
    /\ spc = "close"
    /\ closed' = closed + 1
    /\ spc' = "serving"
    /\ UNCHANGED <<script, attempt, opened, reclaimed, segment, executed, commits, slept>>
    /\ UNCHANGED reqVars


\* lifespan giving up with an exception once the range is used up.
LifespanSleepThenRaise ==
    /\ spc = "sleep"
    /\ slept' = slept + 1
    /\ spc' = IF attempt < MaxAttempts THEN "connect" ELSE "failed"
    /\ UNCHANGED <<script, attempt, opened, closed, reclaimed, segment, executed, commits>>
    /\ UNCHANGED reqVars

\* except mysql.connector.Error: time.sleep(1); then the next iteration of
\* "for _ in range(30)", or the yield once the range is used up.
LifespanSleep ==
    /\ spc = "sleep"
    /\ slept' = slept + 1
    /\ spc' = IF attempt < MaxAttempts THEN "connect" ELSE "serving"
    /\ UNCHANGED <<script, attempt, opened, closed, reclaimed, segment, executed, commits>>
    /\ UNCHANGED reqVars

\* ----------------------------------------------------------- specifications
Idle(clients) ==
    /\ db = EmptyDb
    /\ pc = [c \in clients |-> "idle"]
    /\ open = [c \in clients |-> 0]
    /\ resp = [c \in clients |-> 0]
    /\ last = NoRequest
    /\ expected = [users |-> {}, posts |-> {}, comments |-> {}]

\* lifespan has yielded after applying a one-statement init.sql on its first
\* attempt: the tables exist and are empty, no request has arrived yet.
Booted ==
    /\ script = <<"a", ";">>
    /\ spc = "serving"
    /\ attempt = 1
    /\ opened = 1
    /\ closed = 1
    /\ reclaimed = 0
    /\ segment = 3
    /\ executed = << <<"a">> >>
    /\ commits = 1
    /\ slept = 0

Init == driver \in Drivers /\ Idle(1..NumClients) /\ Booted

Next ==
    \/ \E c \in DOMAIN pc : Connect(c)
    \/ \E c \in DOMAIN pc : ConnectFail(c)
    \/ \E c \in DOMAIN pc : CreateUser(c, MaxRows)
    \/ \E c \in DOMAIN pc : ListUsers(c)
    \/ \E c \in DOMAIN pc : GetUser(c)
    \/ \E c \in DOMAIN pc : UpdateUser(c)
    \/ \E c \in DOMAIN pc : DeleteUser(c)
    \/ \E c \in DOMAIN pc : CreatePost(c, MaxRows)
    \/ \E c \in DOMAIN pc : ListPosts(c)
    \/ \E c \in DOMAIN pc : GetPost(c)
    \/ \E c \in DOMAIN pc : UpdatePost(c)
    \/ \E c \in DOMAIN pc : DeletePost(c)
    \/ \E c \in DOMAIN pc : GetUserPosts(c)
    \/ \E c \in DOMAIN pc : CreateComment(c, MaxRows)
    \/ \E c \in DOMAIN pc : ListComments(c)
    \/ \E c \in DOMAIN pc : GetComment(c)
    \/ \E c \in DOMAIN pc : UpdateComment(c)
    \/ \E c \in DOMAIN pc : DeleteComment(c)
    \/ \E c \in DOMAIN pc : GetPostComments(c)
    \/ \E c \in DOMAIN pc : Release(c)

Spec == Init /\ [][Next]_vars

\* Concurrent requests: the same handlers, several clients in flight at once.
ConnInit == driver \in Drivers /\ Idle(1..ConnClients) /\ Booted

ConnNext ==
    \/ \E c \in DOMAIN pc : Connect(c)
    \/ \E c \in DOMAIN pc : ConnectFail(c)
    \/ \E c \in DOMAIN pc : CreateUser(c, ConnRows)
    \/ \E c \in DOMAIN pc : ListUsers(c)
    \/ \E c \in DOMAIN pc : GetUser(c)
    \/ \E c \in DOMAIN pc : UpdateUser(c)
    \/ \E c \in DOMAIN pc : DeleteUser(c)
    \/ \E c \in DOMAIN pc : CreatePost(c, ConnRows)
    \/ \E c \in DOMAIN pc : ListPosts(c)
    \/ \E c \in DOMAIN pc : GetPost(c)
    \/ \E c \in DOMAIN pc : UpdatePost(c)
    \/ \E c \in DOMAIN pc : DeletePost(c)
    \/ \E c \in DOMAIN pc : GetUserPosts(c)
    \/ \E c \in DOMAIN pc : CreateComment(c, ConnRows)
    \/ \E c \in DOMAIN pc : ListComments(c)
    \/ \E c \in DOMAIN pc : GetComment(c)
    \/ \E c \in DOMAIN pc : UpdateComment(c)
    \/ \E c \in DOMAIN pc : DeleteComment(c)
    \/ \E c \in DOMAIN pc : GetPostComments(c)
    \/ \E c \in DOMAIN pc : Release(c)

ConnSpec == ConnInit /\ [][ConnNext]_vars

\* The process starts: lifespan runs before any request is accepted.  It
\* creates no cursor whose rowcount is read, so one driver stands for both.
Starting(longest) ==
    /\ driver = "cext"
    /\ Idle(1..NumClients)
    /\ script \in Scripts(longest)
    /\ spc = "connect"
    /\ attempt = 0
    /\ opened = 0
    /\ closed = 0
    /\ reclaimed = 0
    /\ segment = 1
    /\ executed = <<>>
    /\ commits = 0
    /\ slept = 0

StartupNext ==
    \/ LifespanConnect
    \/ LifespanConnectError
    \/ LifespanStatement
    \/ LifespanStatementError
    \/ LifespanCommit
    \/ LifespanCommitError
    \/ LifespanClose
    \/ LifespanSleep

StartupInit == Starting(MaxScriptLen)

StartupSpec == StartupInit /\ [][StartupNext]_vars

\* A running process keeps taking the loop's next step.
StartupLiveInit == Starting(LiveScriptLen)

StartupLiveSpec == StartupLiveInit /\ [][StartupNext]_vars /\ WF_vars(StartupNext)

\* ==================================================================== claims
Elems(seq) == {seq[i] : i \in 1..Len(seq)}
\* A request body whose foreign key names a stored parent row.
ValidPosts(d) == {post \in PostCreate : post.user_id \in Ids(d.users)}
ValidComments(d) == {comment \in CommentCreate : comment.post_id \in Ids(d.posts)}

\* An Update applied twice: both calls answer 200 with the id and the
\* submitted fields, and the second call leaves the stored state of the first.
Twice(first, second, body) ==
    /\ first.resp = Ok(body)
    /\ second.resp = first.resp
    /\ second.db = first.db

\* C1: Update is idempotent: for every resource, every existing id and every
\* valid body, the same PUT applied twice in a row stores the same row after
\* each call and answers the same success response {id plus submitted fields}
\* both times; the second call does not answer NotFound.
C1_UpdateIdempotent ==
    /\ (last.op = "update_user" /\ last.resp.status = 200) =>
          LET second == update_user(db, last.args[1], last.args[2])
          IN  second.resp = last.resp /\ second.db = db
    /\ (last.op = "update_post" /\ last.resp.status = 200) =>
          LET second == update_post(db, last.args[1], last.args[2])
          IN  second.resp = last.resp /\ second.db = db
    /\ (last.op = "update_comment" /\ last.resp.status = 200) =>
          LET second == update_comment(db, last.args[1], last.args[2])
          IN  second.resp = last.resp /\ second.db = db
    /\ \A id \in Ids(db.users), user \in UserCreate :
          LET first == update_user(db, id, user)
              second == update_user(first.db, id, user)
          IN  Twice(first, second, [id |-> id, name |-> user.name, email |-> user.email])
    /\ \A id \in Ids(db.posts), post \in ValidPosts(db) :
          LET first == update_post(db, id, post)
              second == update_post(first.db, id, post)
          IN  Twice(first, second, [id |-> id, user_id |-> post.user_id,
                                    title |-> post.title, body |-> post.body])
    /\ \A id \in Ids(db.comments), comment \in ValidComments(db) :
          LET first == update_comment(db, id, comment)
              second == update_comment(first.db, id, comment)
          IN  Twice(first, second, [id |-> id, post_id |-> comment.post_id,
                                    body |-> comment.body])

\* Right after a successful Create, Get by the returned id answers the row
\* with the submitted fields.
GetAfterCreate ==
    /\ (last.op = "create_user" /\ last.resp.status = 200) =>
          LET i == last.resp.body.id
              got == get_user(db, i).resp
          IN  /\ got.status = 200
              /\ got.body = [id |-> i, name |-> last.args[1].name,
                             email |-> last.args[1].email]
    /\ (last.op = "create_post" /\ last.resp.status = 200) =>
          LET i == last.resp.body.id
              got == get_post(db, i).resp
          IN  /\ got.status = 200
              /\ got.body = [id |-> i, user_id |-> last.args[1].user_id,
                             title |-> last.args[1].title, body |-> last.args[1].body]
    /\ (last.op = "create_comment" /\ last.resp.status = 200) =>
          LET i == last.resp.body.id
              got == get_comment(db, i).resp
          IN  /\ got.status = 200
              /\ got.body.id = i
              /\ got.body.post_id = last.args[1].post_id
              /\ got.body.body = last.args[1].body

\* What Get answers for a stored id changes only in a step that runs an Update
\* or a Delete of that very id.
OnlyUpdateOrDeleteChanges ==
    /\ \A i \in Ids(db.users) :
          get_user(db, i)'.resp # get_user(db, i).resp =>
              last'.op \in {"update_user", "delete_user"} /\ last'.args[1] = i
    /\ \A i \in Ids(db.posts) :
          get_post(db, i)'.resp # get_post(db, i).resp =>
              last'.op \in {"update_post", "delete_post"} /\ last'.args[1] = i
    /\ \A i \in Ids(db.comments) :
          get_comment(db, i)'.resp # get_comment(db, i).resp =>
              last'.op \in {"update_comment", "delete_comment"} /\ last'.args[1] = i

\* C2: for every resource and every valid Create input, once Create has
\* returned id i, a Get by id i with no Update or Delete of i in between
\* succeeds and returns a row whose id is i and whose submitted fields are the
\* values given to Create.
C2_CreateThenGet == []GetAfterCreate /\ [][OnlyUpdateOrDeleteChanges]_vars

\* A second row was created after the first one was deleted, and Get finds it.
C2_Witness ==
    /\ last.op = "create_user"
    /\ last.resp.status = 200
    /\ last.resp.body.id = 2
    /\ Ids(db.users) = {2}
    /\ get_user(db, 2).resp.status = 200

\* C3: after any sequence of operations, for every resource and every id that
\* no Create returned or that has been deleted, Get, Update and Delete by that
\* id each fail with NotFound (404); so a second Delete of an id answers
\* NotFound.
C3_MissingIsNotFound ==
    (/\ last.op \in {"get_user", "update_user", "delete_user",
                     "get_post", "update_post", "delete_post",
                     "get_comment", "update_comment", "delete_comment"}
     /\ ~last.known)
    => last.resp.status = 404

\* The rows of a List response without the column clients never submit.
Submitted(rows) == {[id |-> r.id, post_id |-> r.post_id, body |-> r.body] : r \in rows}

\* C4: after any sequence of completed Create, Update and Delete operations on
\* a resource, List returns exactly one entry per row that was created and not
\* deleted since, none for a deleted row and no duplicates, each entry holding
\* the row's current fields; the order of the entries does not matter.
C4_ListIsLiveRows ==
    LET users == list_users(db).resp
        posts == list_posts(db).resp
        comments == list_comments(db).resp
    IN  /\ users.status = 200
        /\ Elems(users.body) = expected.users
        /\ Len(users.body) = Cardinality(expected.users)
        /\ posts.status = 200
        /\ Elems(posts.body) = expected.posts
        /\ Len(posts.body) = Cardinality(expected.posts)
        /\ comments.status = 200
        /\ Submitted(Elems(comments.body)) = expected.comments
        /\ Len(comments.body) = Cardinality(expected.comments)

\* List ran after a row was created, another deleted and one updated: it
\* shows the single surviving row.
C4_Witness ==
    /\ last.op = "list_users"
    /\ db.nextUser = 3
    /\ Len(last.resp.body) = 1
    /\ last.resp.body[1] = [id |-> 2, name |-> "Bob", email |-> "a@x.com"]
    /\ expected.users = {[id |-> 2, name |-> "Bob", email |-> "a@x.com"]}

\* C5: for the join endpoints and any parent id p in any reachable database
\* state: a missing parent gives NotFound; an existing parent gives a response
\* whose parent object is the stored parent row, on the join path and on the
\* fallback path alike, and whose children list holds exactly the child rows
\* whose foreign key is p, the empty list when there are none.
C5_JoinEndpoints ==
    /\ \A p \in PathIds :
          LET got == get_user_posts(db, p).resp
              parent == {u \in db.users : u.id = p}
              children == {[id |-> q.id, title |-> q.title, body |-> q.body] :
                               q \in {x \in db.posts : x.user_id = p}}
          IN  IF parent = {} THEN got.status = 404
              ELSE /\ got.status = 200
                   /\ got.body.user \in parent
                   /\ Elems(got.body.posts) = children
                   /\ Len(got.body.posts) = Cardinality(children)
    /\ \A p \in PathIds :
          LET got == get_post_comments(db, p).resp
              parent == {q \in db.posts : q.id = p}
              children == {[id |-> k.id, body |-> k.body, created_at |-> k.created_at] :
                               k \in {x \in db.comments : x.post_id = p}}
          IN  IF parent = {} THEN got.status = 404
              ELSE /\ got.status = 200
                   /\ got.body.post \in parent
                   /\ Elems(got.body.comments) = children
                   /\ Len(got.body.comments) = Cardinality(children)

\* GET /users/1/posts answered with two posts while user 2 exists without any.
C5_Witness ==
    /\ last.op = "get_user_posts"
    /\ last.args = <<1>>
    /\ last.resp.status = 200
    /\ Len(last.resp.body.posts) = 2
    /\ \E u \in db.users :
          u.id = 2 /\ get_user_posts(db, 2).resp = Ok([user |-> u, posts |-> <<>>])
    /\ get_user_posts(db, 3).resp.status = 404

\* C6: every request that acquired a connection through get_db releases it
\* when it finishes, whether the handler returned, raised NotFound or failed
\* with a database error: under any interleaving each request in flight holds
\* exactly one connection of its own, and a client with no request in flight
\* holds none.
C6_ScopedConnection ==
    \A c \in DOMAIN pc :
        /\ pc[c] \in {"connected", "responded"} => open[c] = 1
        /\ pc[c] = "idle" => open[c] = 0

\* One client has finished a request with NotFound and closed its connection
\* while the other, whose handler failed with a database error, still holds one.
C6_Witness ==
    /\ pc[1] = "idle" /\ resp[1] = 404 /\ open[1] = 0
    /\ pc[2] = "responded" /\ resp[2] = 500 /\ open[2] = 1

\* C7: in every reachable database state, every stored post's user_id is the
\* id of an existing user and every stored comment's post_id is the id of an
\* existing post.
C7_ReferentialIntegrity ==
    /\ \A p \in db.posts : p.user_id \in Ids(db.users)
    /\ \A k \in db.comments : k.post_id \in Ids(db.posts)

\* A Delete of a user that still owns a post has just been rejected.
C7_Witness ==
    /\ last.op = "delete_user"
    /\ last.resp.status = 500
    /\ \E p \in db.posts : p.user_id = last.args[1]
    /\ db.comments # {}

\* The characters of a text that belong to statements.
Letters(text) == SelectSeq(text, LAMBDA ch : ch \notin {";", " "})

RECURSIVE Flatten(_)
Flatten(texts) == IF texts = <<>> THEN <<>> ELSE Head(texts) \o Flatten(Tail(texts))

\* Where a non-empty statement begins: a statement character with nothing but
\* whitespace between it and the terminator before it (or the start).
StatementStarts(text) ==
    {i \in 1..Len(text) :
        /\ text[i] \notin {";", " "}
        /\ \A j \in 1..(i - 1) : (\A k \in j..(i - 1) : text[k] # ";") => text[j] = " "}

\* done is the script's non-empty statements, trimmed, in the script's order.
WholeScript(done, text) ==
    /\ Len(done) = Cardinality(StatementStarts(text))
    /\ Letters(Flatten(done)) = Letters(text)
    /\ \A i \in 1..Len(done) :
          /\ done[i] # <<>>
          /\ Head(done[i]) # " "
          /\ done[i][Len(done[i])] # " "
          /\ \A k \in 1..Len(done[i]) : done[i][k] # ";"

C9_InitializerClosesAll == spc = "serving" => closed + reclaimed = opened

\* C10: the initializer always terminates: the process eventually begins
\* accepting requests, whether an attempt succeeded or all failed, having made
\* at most 30 connection attempts and slept once after each attempt that
\* failed with a database error.
C10_Terminates ==
    <>(/\ spc = "serving"
       /\ attempt <= MaxAttempts
       /\ slept + closed = attempt)

\* All 30 attempts failed, each followed by a sleep, and the process serves.
C10_Witness ==
    /\ spc = "serving"
    /\ attempt = MaxAttempts
    /\ slept = MaxAttempts
    /\ commits = 0
    /\ opened > 0

====
